---- MODULE Spec2Model ----
(***************************************************************************)
(* The authentication core of the health portal: the User collection, the  *)
(* JWT utility and the four operations of AuthService (register, login,    *)
(* refresh rotation, revocation) behind the /api/auth routes.              *)
(*                                                                         *)
(* Every request is an asynchronous handler.  A handler runs atomically    *)
(* from one await to the next, so each action below is one such segment:   *)
(* the database operation the await was waiting for, followed by the       *)
(* synchronous code up to the next await.  Two request slots run           *)
(* concurrently.                                                           *)
(*                                                                         *)
(* user.save() is Mongoose's: a document whose array was only push()ed is  *)
(* written with {$push, $inc __v}; a document whose array path was         *)
(* assigned is written with {$set, $inc __v} under the filter              *)
(* {__v: <the version loaded>} and fails with VersionError when no         *)
(* document matches; an assignment of a deep-equal value marks nothing     *)
(* modified.  UserSchema sets no versionKey option, so the default holds.  *)
(* The version counter itself is not kept: a request carries the flag      *)
(* "stale", set when another request's write has incremented __v of the    *)
(* document it loaded.                                                     *)
(***************************************************************************)
EXTENDS Integers, Sequences, FiniteSets, TLC

VARIABLES
    now,        \* the wall clock, in whole seconds (Math.floor(Date.now() / 1000))
    users,      \* the User collection: users[id] is the document with _id = id
    patients,   \* the ids of the users that have a PatientProfile document
    consents,   \* the Consent collection, in insertion order
    req,        \* the request slots: the handler's position and its locals
    resp,       \* the last response sent, with the request it answers
    issued,     \* history: the refresh tokens returned to a client so far
    registered, \* history: the registrations answered 201, as [email, pw, id]
    rotated,    \* history: the tokens a successful refreshAuth has redeemed
    removed,    \* history: the tokens a completed rotation or revocation took out of a list
    cleared,    \* history: the tokens issued before a completed revoke-all call
    track,      \* whether rotated, removed and cleared are recorded in this run
    env,        \* process.env: JWT_SECRET and JWT_REFRESH_SECRET, read once at start
    http,       \* the request to a protected route that is passing through the middleware
    auditJobs,  \* the AuditLog.log calls that have been started and not yet settled
    auditLog,   \* the AuditLog collection
    grants,     \* the Consent.grant and Consent.revoke calls in flight
    clock,      \* Date.now(), in milliseconds, as the rate limiter reads it
    requestCounts, \* the rate limiter's Map: key -> { count, windowStart }
    arrivals,   \* history: the requests the auth rate limiter has seen
    client,     \* the frontend's lib/api.ts: isRefreshing, failedQueue and the token storage
    calls,      \* the API calls of the frontend and where each of them stands
    appointments, \* the Appointment collection: appointments[a] is the document with _id = a
    wellnessLogs, \* the WellnessLog collection, in insertion order
    wreq        \* the wellness requests in flight: the handler's position and its locals

vars == <<now, users, patients, consents, req, resp, issued, registered, rotated, removed, cleared, track,
          env, http, auditJobs, auditLog, grants, clock, requestCounts, arrivals,
          client, calls, appointments, wellnessLogs, wreq>>

(* The state of the rate limiter *)
limiterVars == <<clock, requestCounts, arrivals>>

(* What the handlers behind the middleware leave alone *)
(* The state of the frontend *)
clientVars == <<client, calls>>

(* The appointments and the wellness logs *)
recordVars == <<appointments, wellnessLogs, wreq>>

sideVars == <<limiterVars, clientVars, recordVars>>

(* What the register, login, refresh and revoke handlers leave alone *)
gateVars == <<env, http, auditLog, grants, sideVars>>

----------------------------------------------------------------------------
(* Bounds of the model *)

MaxNow == 1
MaxTokens == 2
MaxJobs == 2
MaxConsents == 3
MaxHits == 7
MaxCalls == 3
MaxAppointments == 3
MaxLogs == 3
MaxSteps == 2

Procs == {"r1", "r2"}

(* Program constants *)

REFRESH_EXPIRES == 604800
ACCESS_EXPIRES == 900
(* process.env: a variable that is not set, or set to the empty string,   *)
(* leaves the default in place.                                            *)
Unset == ""
DefaultEnv == [JWT_SECRET |-> Unset, JWT_REFRESH_SECRET |-> Unset]
EnvConfigs == [JWT_SECRET : {Unset, "k1"}, JWT_REFRESH_SECRET : {Unset, "k1"}]
SECRET == IF env.JWT_SECRET # Unset THEN env.JWT_SECRET ELSE "dev_secret"
REFRESH_SECRET == IF env.JWT_REFRESH_SECRET # Unset THEN env.JWT_REFRESH_SECRET ELSE "dev_refresh_secret"

----------------------------------------------------------------------------
(* Inputs *)

Emails == {<<"a">>, <<"A">>, <<"b">>}
OneAccount == {<<"a">>, <<"A">>}
NoEmail == <<>>
Passwords == {"p", "q"}
RegisterPasswords == {"p"}
NoPassword == ""

Lower(c) == CASE c = "A" -> "a" [] c = "B" -> "b" [] OTHER -> c

(* A schema without lowercase: true, and a lookup on the e-mail as typed *)
toLowerCaseIdentity(s) == s

toLowerCase(s) == [i \in DOMAIN s |-> Lower(s[i])]

GhostId == Cardinality(Emails) + 1

NoToken == [sub |-> 0, role |-> "", email |-> NoEmail, iat |-> 0, exp |-> 0, key |-> ""]

----------------------------------------------------------------------------
(* utils/password.util.js *)

hashPassword(plain) == [alg |-> "bcrypt", of |-> plain]

comparePassword(plain, hash) == hash.alg = "bcrypt" /\ hash.of = plain

(* utils/jwt.util.js: an HS256 JWT is a function of its payload and key.    *)
(* jwt.sign adds iat = the clock in seconds and exp = iat + expiresIn.      *)

(* An access token that names the newest user instead of the signer's *)
signAccessTokenNewest(id, user) ==
    [sub |-> Len(users), role |-> user.role, email |-> user.email,
     iat |-> now, exp |-> now + ACCESS_EXPIRES, key |-> SECRET]

signAccessToken(id, user) ==
    [sub |-> id, role |-> user.role, email |-> user.email,
     iat |-> now, exp |-> now + ACCESS_EXPIRES, key |-> SECRET]

signRefreshToken(id, user) ==
    [sub |-> id, role |-> user.role, email |-> NoEmail,
     iat |-> now, exp |-> now + REFRESH_EXPIRES, key |-> REFRESH_SECRET]

verifyAccessToken(token) == token.key = SECRET /\ now < token.exp

verifyRefreshToken(token) == token.key = REFRESH_SECRET /\ now < token.exp

(* Tokens a client can present without having been given them in this run: *)
(* one signed with another key, one signed with the refresh key for a      *)
(* subject that has no user record, and one signed with the refresh key    *)
(* seven days before the run began.                                        *)
ForgedToken ==
    [sub |-> 1, role |-> "patient", email |-> NoEmail,
     iat |-> 0, exp |-> REFRESH_EXPIRES, key |-> "forged"]

GhostToken ==
    [sub |-> GhostId, role |-> "patient", email |-> NoEmail,
     iat |-> 0, exp |-> REFRESH_EXPIRES, key |-> REFRESH_SECRET]

ExpiredToken ==
    [sub |-> 1, role |-> "patient", email |-> NoEmail,
     iat |-> 0 - REFRESH_EXPIRES, exp |-> 0, key |-> REFRESH_SECRET]

----------------------------------------------------------------------------
(* middlewares/rateLimit.middleware.js.  A record of the Map is            *)
(* { count, windowStart }; a key that has no record maps to NoRecord.      *)

windowMs == 60000
authMax == 5

NoRecord == [count |-> 0, windowStart |-> 0 - 1]

(* keyGenerator of authLimiter: `auth:${ip}:${email}` *)
authKey(ip, email) == [ip |-> ip, email |-> email]

LimiterKeys == {authKey("10.0.0.1", <<"a">>), authKey("10.0.0.1", <<"b">>)}

(* !record || (now - record.windowStart) > windowMs *)
newWindow(rec, t, window) == rec = NoRecord \/ t - rec.windowStart > window

(* The record after a request at time t *)
counted(rec, t, window) ==
    IF newWindow(rec, t, window)
    THEN [count |-> 1, windowStart |-> t]
    ELSE [rec EXCEPT !.count = @ + 1]

(* A limiter that lets one request more through *)
exceededLate(count, max) == count > max + 1

(* record.count > max *)
exceeded(count, max) == count > max

(* Math.max(0, max - record.count) *)
remainingOf(count, max) == IF max - count > 0 THEN max - count ELSE 0

(* The instants at which a request can arrive: the start of the run, the   *)
(* last millisecond of the window that starts then, its limit, and the     *)
(* milliseconds after it.                                                  *)
Instants == {0, windowMs - 1, windowMs, windowMs + 1, 2 * windowMs + 1, 2 * windowMs + 2}

----------------------------------------------------------------------------
(* frontend/src/lib/api.ts.  An access token is the number of the refresh  *)
(* that returned it, 0 when the storage holds none; error is what the      *)
(* promise of a call was rejected with.                                    *)

Calls == 1..MaxCalls

NewCall == [state |-> "new", retry |-> FALSE, token |-> 0, error |-> ""]

(* The module as it is loaded in a browser whose storage holds the tokens  *)
(* of a login: window is defined.  leaving: window.location.href has been  *)
(* assigned and the page is about to be replaced.  refreshes counts the    *)
(* POST /api/auth/refresh requests in flight.                              *)
Browser ==
    [isRefreshing |-> FALSE, failedQueue |-> <<>>, accessToken |-> 1, refreshToken |-> TRUE,
     refreshes |-> 0, window |-> TRUE, leaving |-> FALSE]

(* The same module where typeof window is 'undefined'.  The storage        *)
(* helpers then read null and write nothing.                               *)
NoWindow == [Browser EXCEPT !.window = FALSE, !.accessToken = 0, !.refreshToken = FALSE]

(* The entries of failedQueue, as a set of calls *)
queued(q) == {q[i] : i \in DOMAIN q}

(* A processQueue that settles the head of the queue only *)
processQueueHead(cs, q, error, token) ==
    [c \in Calls |->
        IF q # <<>> /\ c = Head(q)
        THEN IF error # "" THEN [cs[c] EXCEPT !.state = "rejected", !.error = error]
             ELSE [cs[c] EXCEPT !.state = "sent", !.token = token]
        ELSE cs[c]]

(* processQueue(error, token): every entry is rejected with the error, or  *)
(* resolved with the token, and then its .then sends the request again     *)
(* with that token; an entry is left as it is when there is neither.       *)
processQueue(cs, q, error, token) ==
    [c \in Calls |->
        IF c \notin queued(q) THEN cs[c]
        ELSE IF error # "" THEN [cs[c] EXCEPT !.state = "rejected", !.error = error]
        ELSE IF token # 0 THEN [cs[c] EXCEPT !.state = "sent", !.token = token]
        ELSE cs[c]]

----------------------------------------------------------------------------
(* models/appointment.model.js and controllers/appointment.controller.js  *)

Appointments == 1..MaxAppointments

(* The enum of AppointmentSchema.status *)
AppointmentStatuses == {"scheduled", "confirmed", "completed", "cancelled", "no-show"}

NoAppointment == [status |-> "none", notes |-> "", cancelReason |-> ""]

(* updateProviderAppointment: if (req.body.status) and                     *)
(* validStatuses.includes(req.body.status), appointment.status is assigned *)
nextStatus(current, wanted) ==
    IF wanted \in {"confirmed", "completed", "cancelled", "no-show"} THEN wanted ELSE current

(* models/wellnessLog.model.js.  One patient and one calendar day: every   *)
(* document of the collection is a log of that patient and day.            *)
NoWellness == [pc |-> "idle", op |-> "none", log |-> 0, steps |-> 0, body |-> 0]

WellnessOps == {"getToday", "updateToday", "logActivity", "getSummary"}

(* findOne({ patient, date: { $gte: today, $lt: tomorrow } }): the first   *)
(* document that matches, 0 for null                                       *)
findToday(logs) == IF logs = <<>> THEN 0 ELSE 1

----------------------------------------------------------------------------
(* Helpers over the collections *)

Ids == DOMAIN users

Range(s) == {s[i] : i \in DOMAIN s}

(* A refreshAuth that skips the membership check *)
includesAlways(list, t) == TRUE

includes(list, t) == \E i \in DOMAIN list : list[i] = t

RECURSIVE withoutFirst(_, _)
(* A filter that drops one copy of the token only *)
withoutFirst(list, t) ==
    IF list = <<>> THEN <<>>
    ELSE IF Head(list) = t THEN Tail(list)
    ELSE <<Head(list)>> \o withoutFirst(Tail(list), t)

without(list, t) == SelectSeq(list, LAMBDA x : x # t)

findOne(email) ==
    IF \E id \in Ids : users[id].email = email
    THEN CHOOSE id \in Ids : users[id].email = email
    ELSE 0

findById(id) == IF id \in Ids THEN id ELSE 0

(* A request slot.  replay, wasCleared, ov, expect, authOnly and noop are   *)
(* instrumentation: what was true of the request when it arrived.          *)
Idle ==
    [op |-> "none", pc |-> "idle", tok |-> NoToken, uid |-> 0,
     email |-> NoEmail, pw |-> NoPassword, doc |-> <<>>,
     new |-> NoToken, acc |-> NoToken, stale |-> FALSE,
     replay |-> FALSE, wasCleared |-> FALSE, ov |-> FALSE, expect |-> 0,
     authOnly |-> FALSE, noop |-> FALSE, pre |-> {}]

NoResponse ==
    [op |-> "none", status |-> 0, sub |-> 0,
     replay |-> FALSE, wasCleared |-> FALSE, ov |-> FALSE, expect |-> 0,
     authOnly |-> FALSE, noop |-> FALSE, error |-> ""]

(* The response of the last completed request has left the process *)
Flushed == resp = NoResponse

Free(p) == req[p].pc = "idle"

InFlight(q) == ~Free(q)

holdsDoc(r) == r.op \in {"refresh", "revoke", "logout"} /\ r.pc = "save"

(* A save that is not conditional on the version read *)
bumpNothing(rq, p, id) == rq

(* A write that increments __v of user id: every other request that has    *)
(* loaded that document now holds an old version.                          *)
bumpVersion(rq, p, id) ==
    [q \in Procs |->
        IF q # p /\ rq[q].uid = id /\ holdsDoc(rq[q])
        THEN [rq[q] EXCEPT !.stale = TRUE]
        ELSE rq[q]]

setTokens(id, list) == [users EXCEPT ![id].refreshTokens = list]

(* A login that overwrites the list instead of appending to it *)
pushTokenReplacing(id, t) == [users EXCEPT ![id].refreshTokens = <<t>>]

pushToken(id, t) == [users EXCEPT ![id].refreshTokens = Append(@, t)]

(* res.status(code).json(body): the body of a success names the user and   *)
(* carries the tokens, the body of an error carries the message only.      *)
answer(r, code) ==
    [op |-> r.op, status |-> code,
     sub |-> IF code \in {200, 201} THEN r.acc.sub ELSE 0,
     replay |-> r.replay, wasCleared |-> r.wasCleared, ov |-> r.ov,
     expect |-> r.expect, authOnly |-> r.authOnly, noop |-> r.noop, error |-> ""]

(* Errors thrown by the driver and by Mongoose: they have a message and no  *)
(* status property.  E11000 is the unique index on email, VersionError the *)
(* save of a document whose __v no longer matches.                         *)
DuplicateKey == [status |-> 0, message |-> "E11000 duplicate key error collection: users index: email_1"]

VersionError == [status |-> 0, message |-> "No matching document found for id and version"]

(* controllers/auth.controller.js: err.status || 500, and                  *)
(* err.message || 'Internal Server Error'                                  *)
respondError(err) ==
    [status |-> IF err.status # 0 THEN err.status ELSE 500,
     error |-> IF err.message # "" THEN err.message ELSE "Internal Server Error"]

(* catch (err) { return respondError(res, err) } *)
fail(r, err) ==
    [answer(r, respondError(err).status) EXCEPT !.error = respondError(err).error]

record(history, tokens) == IF track THEN history \cup tokens ELSE history

done(p) == [req EXCEPT ![p] = Idle]

goto(p, r, label) == [req EXCEPT ![p] = [r EXCEPT !.pc = label]]

RequiredConsents ==
    {"terms_of_service", "privacy_policy", "data_processing", "health_data_sharing"}

----------------------------------------------------------------------------
(* models/consent.model.js.  A Consent document is active when granted is  *)
(* true and revokedAt is null.                                             *)

NullDate == 0 - 1

requiredConsents ==
    <<"terms_of_service", "privacy_policy", "data_processing", "health_data_sharing">>

isActive(d, userId, consentType) ==
    /\ d.user = userId /\ d.consentType = consentType
    /\ d.granted /\ d.revokedAt = NullDate

activeOf(docs, userId, consentType) ==
    {i \in DOMAIN docs : isActive(docs[i], userId, consentType)}

(* A grant that leaves the prior records as they are *)
closeNone(docs, userId, consentType) == docs

(* updateMany({user, consentType, granted: true, revokedAt: null},         *)
(*            {revokedAt: new Date()})                                     *)
closeActive(docs, userId, consentType) ==
    [i \in DOMAIN docs |->
        IF isActive(docs[i], userId, consentType)
        THEN [docs[i] EXCEPT !.revokedAt = now] ELSE docs[i]]

(* this.create({user, consentType, version, granted: true, ...}) *)
createConsent(docs, userId, consentType) ==
    Append(docs, [user |-> userId, consentType |-> consentType,
                  granted |-> TRUE, revokedAt |-> NullDate])

(* A grant that no other call overlaps *)
grant(docs, userId, consentType) ==
    createConsent(closeActive(docs, userId, consentType), userId, consentType)

revoke(docs, userId, consentType) ==
    [i \in DOMAIN docs |->
        IF isActive(docs[i], userId, consentType)
        THEN [docs[i] EXCEPT !.revokedAt = now, !.granted = FALSE] ELSE docs[i]]

RECURSIVE grantFrom(_, _, _)
grantFrom(docs, userId, k) ==
    IF k > Len(requiredConsents) THEN docs
    ELSE grantFrom(grant(docs, userId, requiredConsents[k]), userId, k + 1)

recordRegistrationConsents(docs, userId) == grantFrom(docs, userId, 1)

----------------------------------------------------------------------------
(* middlewares/audit.middleware.js and models/auditLog.model.js.  A path   *)
(* is the sequence of its segments; slash marks a key of the table that    *)
(* ends with "/".                                                          *)

Null == "null"

endpointActionMap ==
    {[method |-> "GET", path |-> <<"api", "patients", "me">>, slash |-> FALSE, action |-> "PROFILE_VIEW"],
     [method |-> "PUT", path |-> <<"api", "patients", "me">>, slash |-> FALSE, action |-> "PROFILE_UPDATE"],
     [method |-> "GET", path |-> <<"api", "patients", "dashboard">>, slash |-> FALSE, action |-> "PHI_ACCESS"],
     [method |-> "POST", path |-> <<"api", "patients", "goals">>, slash |-> FALSE, action |-> "PHI_UPDATE"],
     [method |-> "POST", path |-> <<"api", "patients", "goals">>, slash |-> TRUE, action |-> "PHI_UPDATE"],
     [method |-> "GET", path |-> <<"api", "patients", "wellness">>, slash |-> FALSE, action |-> "PHI_ACCESS"],
     [method |-> "POST", path |-> <<"api", "patients", "wellness">>, slash |-> FALSE, action |-> "WELLNESS_LOG"],
     [method |-> "PUT", path |-> <<"api", "patients", "wellness">>, slash |-> FALSE, action |-> "WELLNESS_LOG"],
     [method |-> "GET", path |-> <<"api", "providers", "patients">>, slash |-> FALSE, action |-> "PATIENT_VIEW"],
     [method |-> "GET", path |-> <<"api", "providers", "patients">>, slash |-> TRUE, action |-> "PATIENT_VIEW"],
     [method |-> "POST", path |-> <<"api", "providers", "patients">>, slash |-> TRUE, action |-> "COMPLIANCE_UPDATE"],
     [method |-> "GET", path |-> <<"api", "appointments">>, slash |-> FALSE, action |-> "PHI_ACCESS"],
     [method |-> "POST", path |-> <<"api", "appointments">>, slash |-> FALSE, action |-> "APPOINTMENT_CREATE"],
     [method |-> "PUT", path |-> <<"api", "appointments">>, slash |-> TRUE, action |-> "APPOINTMENT_UPDATE"],
     [method |-> "DELETE", path |-> <<"api", "appointments">>, slash |-> TRUE, action |-> "APPOINTMENT_CANCEL"]}

startsWith(path, prefix) ==
    Len(path) >= Len(prefix) /\ SubSeq(path, 1, Len(prefix)) = prefix

(* The exact key first, then the keys that end with "/" as prefixes *)
getActionType(method, path) ==
    LET exact == {e \in endpointActionMap :
                    ~e.slash /\ e.method = method /\ e.path = path}
        prefix == {e \in endpointActionMap :
                    /\ e.slash /\ e.method = method
                    /\ Len(path) > Len(e.path) /\ startsWith(path, e.path)} IN
    IF exact # {} THEN (CHOOSE e \in exact : TRUE).action
    ELSE IF prefix # {} THEN (CHOOSE e \in prefix : TRUE).action
    ELSE Null

(* The logData that the wrapped res.end hands to AuditLog.log: none when   *)
(* the action is null.  path is req.path when res.end runs, user is        *)
(* req.user or NoToken.                                                    *)
logData(method, path, originalUrl, user, statusCode, sent) ==
    LET action == getActionType(method, path) IN
    IF action = Null THEN <<>>
    ELSE <<[userId |-> user.sub,
            userRole |-> IF user = NoToken THEN Null ELSE user.role,
            userEmail |-> user.email,
            action |-> action, method |-> method, endpoint |-> originalUrl,
            statusCode |-> statusCode,
            success |-> (statusCode >= 200 /\ statusCode < 400),
            afterEnd |-> sent, state |-> "pending"]>>

(* AuditLog.log: try { return await this.create(..) } catch { log }: the   *)
(* promise resolves whether or not the document was created.               *)
(* An AuditLog.log without the try/catch *)
logOutcomeRethrowing(created) == IF created THEN "resolved" ELSE "rejected"

logOutcome(created) == "resolved"

----------------------------------------------------------------------------
(* middlewares/auth.middleware.js and the routers of the protected routes. *)
(* An Authorization header is what auth.split(' ') makes of it: the number *)
(* of parts, the first part and, of a two-part header, the second.         *)

NoHeader == [parts |-> 0, scheme |-> "", token |-> NoToken]

Bearer(t) == [parts |-> 2, scheme |-> "Bearer", token |-> t]

authMiddleware(h) ==
    IF h.parts = 0 THEN [status |-> 401, user |-> NoToken]
    ELSE IF h.parts # 2 \/ h.scheme # "Bearer" THEN [status |-> 401, user |-> NoToken]
    ELSE IF ~verifyAccessToken(h.token) THEN [status |-> 401, user |-> NoToken]
    ELSE [status |-> 0, user |-> h.token]

requireRole(role, user) ==
    IF user = NoToken THEN 401
    ELSE IF user.role # role THEN 403
    ELSE 0

route(method, pattern, role) == [method |-> method, pattern |-> pattern, role |-> role]

patientRoutes ==
    [base |-> <<"api", "patients">>, role |-> Null,
     routes |-> {route("GET", <<"me">>, "patient"),
                 route("PUT", <<"me">>, "patient"),
                 route("GET", <<"dashboard">>, "patient"),
                 route("POST", <<"goals">>, "patient"),
                 route("POST", <<"goals", ":id", "log">>, "patient")}]

wellnessRoutes ==
    [base |-> <<"api", "patients", "wellness">>, role |-> "patient",
     routes |-> {route("GET", <<"today">>, "patient"),
                 route("PUT", <<"today">>, "patient"),
                 route("POST", <<"log">>, "patient"),
                 route("GET", <<"history">>, "patient"),
                 route("GET", <<"summary">>, "patient")}]

providerRoutes ==
    [base |-> <<"api", "providers">>, role |-> Null,
     routes |-> {route("GET", <<"me">>, "provider"),
                 route("GET", <<"patients">>, "provider"),
                 route("GET", <<"patients", ":id">>, "provider"),
                 route("GET", <<"patients", ":id", "wellness">>, "provider"),
                 route("POST", <<"patients", ":id", "compliance">>, "provider")}]

appointmentRoutes ==
    [base |-> <<"api", "appointments">>, role |-> Null,
     routes |-> {route("GET", <<"patient">>, "patient"),
                 route("GET", <<"patient", ":id">>, "patient"),
                 route("POST", <<"patient">>, "patient"),
                 route("PUT", <<"patient", ":id">>, "patient"),
                 route("DELETE", <<"patient", ":id">>, "patient"),
                 route("GET", <<"provider">>, "provider"),
                 route("POST", <<"provider">>, "provider"),
                 route("PUT", <<"provider", ":id">>, "provider")}]

(* server.js mounts them in this order *)
Routers == <<patientRoutes, wellnessRoutes, providerRoutes, appointmentRoutes>>

matches(pattern, path) ==
    /\ Len(pattern) = Len(path)
    /\ \A i \in DOMAIN pattern : pattern[i] = ":id" \/ pattern[i] = path[i]

below(url, base) == SubSeq(url, Len(base) + 1, Len(url))

hitsOf(R, method, url) ==
    {r \in R.routes : r.method = method /\ matches(r.pattern, below(url, R.base))}

NoRequest ==
    [stage |-> "idle", method |-> "", url |-> <<>>, header |-> NoHeader, at |-> 0,
     user |-> NoToken, status |-> 0, ran |-> FALSE, sent |-> FALSE, path |-> <<>>]

NoGrant == [pc |-> "idle", user |-> 0, consentType |-> ""]

(* Instrumentation: the id created by a registration that was answered 201 *)
(* with this password and this email up to letter case, or 0.              *)
EqualsIgnoreCase(a, b) ==
    /\ Len(a) = Len(b)
    /\ \A i \in DOMAIN a : a[i] = b[i] \/ {a[i], b[i]} \in {{"a", "A"}, {"b", "B"}}

registrationOf(email, password) ==
    LET match == {g \in registered : g.pw = password /\ EqualsIgnoreCase(g.email, email)} IN
    IF match = {} THEN 0 ELSE (CHOOSE g \in match : TRUE).id

pendingPush(id) ==
    Cardinality({q \in Procs : InFlight(q) /\ req[q].uid = id
                                /\ req[q].op \in {"login", "register"}})

----------------------------------------------------------------------------
InitState ==
    /\ now = 0
    /\ users = <<>>
    /\ patients = {}
    /\ consents = <<>>
    /\ req = [p \in Procs |-> Idle]
    /\ resp = NoResponse
    /\ issued = {}
    /\ registered = {}
    /\ rotated = {}
    /\ removed = {}
    /\ cleared = {}
    /\ http = NoRequest
    /\ auditJobs = <<>>
    /\ auditLog = <<>>
    /\ grants = [p \in Procs |-> NoGrant]
    /\ clock = 0
    /\ requestCounts = [k \in LimiterKeys |-> NoRecord]
    /\ arrivals = <<>>
    /\ calls = [c \in Calls |-> NewCall]
    /\ appointments = [a \in Appointments |-> NoAppointment]
    /\ wellnessLogs = <<>>
    /\ wreq = [p \in Procs |-> NoWellness]

Init == InitState /\ track = TRUE /\ env = DefaultEnv /\ client = Browser

InitSeq == InitState /\ track = FALSE /\ env = DefaultEnv /\ client = Browser

Tick ==
    /\ Flushed
    /\ now < MaxNow
    /\ now' = now + 1
    /\ resp' = NoResponse
    /\ UNCHANGED <<users, patients, consents, req, issued, registered, rotated, removed, cleared, track>>
    /\ UNCHANGED <<gateVars, auditJobs>>

(* routes/auth.routes.js: the path of each handler below the mount point   *)
(* /api/auth, which is what req.path holds while the handler runs.         *)
authRoute ==
    [register |-> <<"register">>, login |-> <<"login">>,
     refresh |-> <<"refresh">>, logout |-> <<"logout">>]

(* res.json(...) calls res.end, which auditMiddleware has wrapped: the     *)
(* response goes on the wire, then the wrapper looks the request up in the *)
(* table and starts AuditLog.log for a tracked one.  No middleware of      *)
(* /api/auth sets req.user.  revokeTokens called directly has no response. *)
Respond ==
    /\ ~Flushed
    /\ resp' = NoResponse
    /\ auditJobs' = IF resp.op \in DOMAIN authRoute
                    THEN auditJobs \o logData("POST", authRoute[resp.op],
                                               <<"api", "auth">> \o authRoute[resp.op],
                                               NoToken, resp.status, TRUE)
                    ELSE auditJobs
    /\ UNCHANGED <<now, users, patients, consents, req, issued, registered, rotated, removed, cleared, track>>
    /\ UNCHANGED gateVars

----------------------------------------------------------------------------
(* POST /api/auth/register -> registerPatient -> createPatientAccount *)

(* const { ..., consent = true } = payload: the flag of the request body,  *)
(* with the default the destructuring gives an absent one.                 *)
Absent == "absent"

consentOrDefault(flag) == IF flag = Absent THEN "true" ELSE flag

RegisterStart(p, email, password, consent) ==
    /\ Flushed
    /\ Free(p)
    /\ LET r == [Idle EXCEPT !.op = "register", !.email = email, !.pw = password]
           code == IF email = NoEmail \/ password = NoPassword THEN 400
                   ELSE IF consentOrDefault(consent) # "true" THEN 400
                   ELSE IF findOne(toLowerCase(email)) # 0 THEN 409
                   ELSE 0 IN
          IF code # 0
          THEN req' = done(p) /\ resp' = answer(r, code)
          ELSE req' = goto(p, r, "create") /\ resp' = NoResponse
    /\ UNCHANGED <<now, users, patients, consents, issued, registered, rotated, removed, cleared, track>>
    /\ UNCHANGED <<gateVars, auditJobs>>

(* User.create: the unique index on email rejects a second document (E11000, *)
(* an error without status, answered 500).  Then Patient.create and          *)
(* Consent.recordRegistrationConsents write the documents of the new user,   *)
(* which no other request reads.                                             *)
RegisterCreate(p) ==
    /\ Flushed
    /\ req[p].op = "register" /\ req[p].pc = "create"
    /\ LET r == req[p]
           email == toLowerCase(r.email)
           id == Len(users) + 1 IN
          IF findOne(email) # 0
          THEN /\ req' = done(p)
               /\ resp' = fail(r, DuplicateKey)
               /\ UNCHANGED <<users, patients, consents>>
          ELSE /\ users' = Append(users, [email |-> email,
                                           passwordHash |-> hashPassword(r.pw),
                                           role |-> "patient",
                                           refreshTokens |-> <<>>])
               /\ patients' = patients \cup {id}
               /\ consents' = recordRegistrationConsents(consents, id)
               /\ req' = goto(p, [r EXCEPT !.uid = id], "sign")
               /\ resp' = NoResponse
    /\ UNCHANGED <<now, issued, registered, rotated, removed, cleared, track>>
    /\ UNCHANGED <<gateVars, auditJobs>>

(* A write after User.create that the database rejects: Patient.create,    *)
(* Provider.findByIdAndUpdate, Consent.recordRegistrationConsents (at its   *)
(* first grant) or newUser.save.  The error has no status; the service has *)
(* no catch and no transaction, and the controller answers it.             *)
DatabaseError == [status |-> 0, message |-> "connection closed"]

FaultSteps == {"profile", "provider", "consent", "save"}

RegisterFault(p, step) ==
    /\ Flushed
    /\ req[p].op = "register"
    /\ LET r == req[p]
           email == toLowerCase(r.email)
           id == Len(users) + 1 IN
          IF step = "save"
          THEN /\ r.pc = "save"
               /\ UNCHANGED <<users, patients, consents>>
          ELSE /\ r.pc = "create"
               /\ findOne(email) = 0
               /\ users' = Append(users, [email |-> email,
                                           passwordHash |-> hashPassword(r.pw),
                                           role |-> "patient",
                                           refreshTokens |-> <<>>])
               /\ patients' = IF step = "profile" THEN patients ELSE patients \cup {id}
               /\ UNCHANGED consents
    /\ req' = done(p)
    /\ resp' = fail(req[p], DatabaseError)
    /\ UNCHANGED <<now, issued, registered, rotated, removed, cleared, track>>
    /\ UNCHANGED <<gateVars, auditJobs>>

(* The tokens are signed and the refresh token is pushed *)
RegisterSign(p) ==
    /\ Flushed
    /\ req[p].op = "register" /\ req[p].pc = "sign"
    /\ LET r == req[p] IN
          req' = goto(p, [r EXCEPT !.acc = signAccessToken(r.uid, users[r.uid]),
                                   !.new = signRefreshToken(r.uid, users[r.uid])], "save")
    /\ resp' = NoResponse
    /\ UNCHANGED <<now, users, patients, consents, issued, registered, rotated, removed, cleared, track>>
    /\ UNCHANGED <<gateVars, auditJobs>>

RegisterSave(p) ==
    /\ Flushed
    /\ req[p].op = "register" /\ req[p].pc = "save"
    /\ LET r == req[p] IN
          /\ users' = pushToken(r.uid, r.new)
          /\ req' = bumpVersion(done(p), p, r.uid)
          /\ resp' = answer(r, 201)
          /\ issued' = issued \cup {r.new}
          /\ registered' = registered \cup {[email |-> r.email, pw |-> r.pw, id |-> r.uid]}
    /\ UNCHANGED <<now, patients, consents, rotated, removed, cleared, track>>
    /\ UNCHANGED <<gateVars, auditJobs>>

----------------------------------------------------------------------------
(* POST /api/auth/login -> login -> authenticate.  The document read by    *)
(* findOne gives the handler the id, the role and the password hash, which *)
(* no operation changes, so the read and the signing are one step.         *)

(* The errors authenticate throws, and what respondError makes of one *)
fieldsRequired == [status |-> 400, message |-> "Email and password required"]

(* A login that tells an unknown e-mail from a wrong password *)
unknownEmailTelling == [status |-> 404, message |-> "User not found"]

unknownEmail == [status |-> 401, message |-> "Invalid credentials"]

wrongPassword == [status |-> 401, message |-> "Invalid credentials"]

NoError == [status |-> 0, message |-> ""]

loginError(email, password) ==
    LET id == findOne(toLowerCase(email)) IN
    IF email = NoEmail \/ password = NoPassword THEN fieldsRequired
    ELSE IF id = 0 THEN unknownEmail
    ELSE IF ~comparePassword(password, users[id].passwordHash) THEN wrongPassword
    ELSE NoError

LoginStart(p, email, password) ==
    /\ Flushed
    /\ Free(p)
    /\ LET r == [Idle EXCEPT !.op = "login", !.expect = registrationOf(email, password)]
           id == findOne(toLowerCase(email))
           err == loginError(email, password)
           code == IF err = NoError THEN 0 ELSE respondError(err).status IN
          IF code # 0
          THEN req' = done(p) /\ resp' = answer(r, code)
          ELSE /\ Len(users[id].refreshTokens) + pendingPush(id) < MaxTokens
               /\ req' = goto(p, [r EXCEPT !.uid = id,
                                           !.acc = signAccessToken(id, users[id]),
                                           !.new = signRefreshToken(id, users[id])], "save")
               /\ resp' = NoResponse
    /\ UNCHANGED <<now, users, patients, consents, issued, registered, rotated, removed, cleared, track>>
    /\ UNCHANGED <<gateVars, auditJobs>>

LoginSave(p) ==
    /\ Flushed
    /\ req[p].op = "login" /\ req[p].pc = "save"
    /\ LET r == req[p] IN
          /\ users' = pushToken(r.uid, r.new)
          /\ req' = bumpVersion(done(p), p, r.uid)
          /\ resp' = answer(r, 200)
          /\ issued' = issued \cup {r.new}
    /\ UNCHANGED <<now, patients, consents, registered, rotated, removed, cleared, track>>
    /\ UNCHANGED <<gateVars, auditJobs>>

----------------------------------------------------------------------------
(* POST /api/auth/refresh -> refreshToken -> refreshAuth.  The save is     *)
(* conditional on the version read, so a rotation that is saved has read   *)
(* the list the save replaces: the read and the rotation are one step.     *)

RefreshInputs == issued \cup {NoToken, ForgedToken, GhostToken, ExpiredToken}

sameRefresh(q, t) == InFlight(q) /\ req[q].op = "refresh" /\ req[q].tok = t

RefreshStart(p, t) ==
    /\ Flushed
    /\ Free(p)
    /\ LET r == [Idle EXCEPT !.op = "refresh", !.tok = t,
                             !.replay = (t \in rotated),
                             !.wasCleared = (t \in cleared)]
           id == findById(t.sub)
           code == IF t = NoToken THEN 400
                   ELSE IF ~verifyRefreshToken(t) THEN 401
                   ELSE IF id = 0 THEN 401
                   ELSE IF ~includes(users[id].refreshTokens, t) THEN 401
                   ELSE 0 IN
          IF code # 0
          THEN req' = done(p) /\ resp' = answer(r, code)
          ELSE /\ req' = goto(p, [r EXCEPT
                        !.uid = id,
                        !.acc = signAccessToken(id, users[id]),
                        !.new = signRefreshToken(id, users[id]),
                        !.doc = Append(without(users[id].refreshTokens, t),
                                       signRefreshToken(id, users[id]))], "save")
               /\ resp' = NoResponse
    /\ UNCHANGED <<now, users, patients, consents, issued, registered, rotated, removed, cleared, track>>
    /\ UNCHANGED <<gateVars, auditJobs>>

(* Instrumentation: the requests still working on token t have overlapped  *)
(* a refreshAuth(t) that succeeded.                                        *)
markOverlap(rq, p, t) ==
    [q \in Procs |-> IF q # p /\ sameRefresh(q, t)
                     THEN [rq[q] EXCEPT !.ov = TRUE] ELSE rq[q]]

RefreshSave(p) ==
    /\ Flushed
    /\ req[p].op = "refresh" /\ req[p].pc = "save"
    /\ LET r == req[p] IN
          IF r.stale
          THEN /\ req' = done(p)
               /\ resp' = fail([r EXCEPT !.acc = NoToken], VersionError)
               /\ UNCHANGED <<users, issued, rotated, removed>>
          ELSE /\ users' = setTokens(r.uid, r.doc)
               /\ req' = markOverlap(bumpVersion(done(p), p, r.uid), p, r.tok)
               /\ resp' = answer(r, 200)
               /\ issued' = issued \cup {r.new}
               /\ rotated' = record(rotated, {r.tok})
               /\ removed' = record(removed, {r.tok})
    /\ UNCHANGED <<now, patients, consents, registered, cleared, track>>
    /\ UNCHANGED <<gateVars, auditJobs>>

----------------------------------------------------------------------------
(* revokeTokens(userId, refreshToken?), called by the logout controller or *)
(* directly; r is the request record of the caller.                        *)

revokeTokens(p, r, userId, t) ==
    LET id == findById(userId)
        doc == users[id].refreshTokens
        list == IF t # NoToken THEN without(doc, t) ELSE <<>>
        pre == IF t # NoToken THEN {} ELSE {x \in issued : x.sub = id} IN
    IF id = 0
    THEN /\ req' = done(p)
         /\ resp' = answer(r, 404)
         /\ cleared' = cleared
    ELSE IF list = doc
    THEN /\ req' = done(p)
         /\ resp' = answer([r EXCEPT !.noop = TRUE], 200)
         /\ cleared' = record(cleared, pre)
    ELSE /\ req' = goto(p, [r EXCEPT !.uid = id, !.doc = list, !.pre = pre], "save")
         /\ resp' = NoResponse
         /\ cleared' = cleared

RevokeStart(p, userId, t) ==
    /\ Flushed
    /\ Free(p)
    /\ revokeTokens(p, [Idle EXCEPT !.op = "revoke", !.tok = t], userId, t)
    /\ UNCHANGED <<now, users, patients, consents, issued, registered, rotated, removed, track>>
    /\ UNCHANGED <<gateVars, auditJobs>>

RevokeSave(p) ==
    /\ Flushed
    /\ req[p].op \in {"revoke", "logout"} /\ req[p].pc = "save"
    /\ LET r == req[p] IN
          IF r.stale
          THEN /\ req' = done(p)
               /\ resp' = fail(r, VersionError)
               /\ UNCHANGED <<users, removed, cleared>>
          ELSE /\ users' = setTokens(r.uid, r.doc)
               /\ req' = bumpVersion(done(p), p, r.uid)
               /\ resp' = answer(r, 200)
               /\ removed' = record(removed, Range(users[r.uid].refreshTokens) \ Range(r.doc))
               /\ cleared' = record(cleared, r.pre)
    /\ UNCHANGED <<now, patients, consents, issued, registered, rotated, track>>
    /\ UNCHANGED <<gateVars, auditJobs>>

----------------------------------------------------------------------------
(* POST /api/auth/logout -> logout.  The route is mounted behind the rate  *)
(* limiter only: no middleware of this route verifies the Authorization    *)
(* header, so req.user is undefined whatever bearer token the request has. *)

accessOf(t) ==
    [sub |-> t.sub, role |-> t.role, email |-> users[t.sub].email,
     iat |-> t.iat, exp |-> t.iat + ACCESS_EXPIRES, key |-> SECRET]

BearerInputs == {NoToken} \cup {accessOf(t) : t \in issued}

logoutReqUser(bearer) == NoToken

Logout(p, bearer, t) ==
    /\ Flushed
    /\ Free(p)
    /\ LET r == [Idle EXCEPT !.op = "logout", !.tok = t,
                             !.expect = bearer.sub,
                             !.authOnly = (bearer # NoToken /\ verifyAccessToken(bearer)
                                           /\ t = NoToken)]
           user == logoutReqUser(bearer)
           userId == IF user # NoToken THEN user.sub
                     ELSE IF t # NoToken /\ verifyRefreshToken(t) THEN t.sub
                     ELSE 0 IN
          IF userId = 0
          THEN /\ req' = done(p)
               /\ resp' = answer(r, 400)
               /\ cleared' = cleared
          ELSE revokeTokens(p, r, userId, t)
    /\ UNCHANGED <<now, users, patients, consents, issued, registered, rotated, removed, track>>
    /\ UNCHANGED <<gateVars, auditJobs>>

----------------------------------------------------------------------------
(* router.use(authLimiter): the middleware in front of the four handlers   *)
(* of /api/auth.  It calls next(), or answers 429 and does not.            *)

Advance(t) ==
    /\ t > clock
    /\ clock' = t
    /\ UNCHANGED <<requestCounts, arrivals>>
    /\ UNCHANGED <<now, users, patients, consents, req, resp, issued, registered, rotated, removed,
                   cleared, track, env, http, auditJobs, auditLog, grants>>
    /\ UNCHANGED <<clientVars, recordVars>>

authLimiter(key) ==
    /\ Len(arrivals) < MaxHits
    /\ LET rec == counted(requestCounts[key], clock, windowMs)
           limited == exceeded(rec.count, authMax) IN
          /\ requestCounts' = [requestCounts EXCEPT ![key] = rec]
          /\ arrivals' = Append(arrivals, [key |-> key, at |-> clock,
                                    first |-> newWindow(requestCounts[key], clock, windowMs),
                                    remaining |-> remainingOf(rec.count, authMax),
                                    status |-> IF limited THEN 429 ELSE 0,
                                    passed |-> ~limited])
    /\ UNCHANGED clock
    /\ UNCHANGED <<now, users, patients, consents, req, resp, issued, registered, rotated, removed,
                   cleared, track, env, http, auditJobs, auditLog, grants>>
    /\ UNCHANGED <<clientVars, recordVars>>

----------------------------------------------------------------------------
(* The frontend.  The request interceptor puts the stored access token on  *)
(* a request; the response interceptor handles an error response.  Each    *)
(* action is the synchronous code between two awaits.                      *)

serverVars ==
    <<now, users, patients, consents, req, resp, issued, registered, rotated, removed,
      cleared, track, env, http, auditJobs, auditLog, grants, limiterVars>>

Request(c) ==
    /\ calls[c].state = "new"
    /\ calls' = [calls EXCEPT ![c].state = "sent", ![c].token = client.accessToken]
    /\ UNCHANGED <<client, serverVars, recordVars>>

(* clearTokens(), then if (typeof window !== 'undefined')                  *)
(* window.location.href = '/login'                                         *)
clearTokens(cl) ==
    [cl EXCEPT !.accessToken = 0, !.refreshToken = FALSE, !.leaving = cl.window]

(* setTokens(accessToken, refreshToken) *)
setTokensOf(cl, token) == IF cl.window THEN [cl EXCEPT !.accessToken = token] ELSE cl

(* The response of the server to call c arrives *)
Response(c, status) ==
    /\ calls[c].state = "sent"
    /\ IF status # 401 \/ calls[c].retry
       THEN /\ calls' = [calls EXCEPT ![c].state = IF status = 401 THEN "rejected" ELSE "resolved",
                                       ![c].error = IF status = 401 THEN "401" ELSE ""]
            /\ UNCHANGED client
       ELSE IF client.isRefreshing
       THEN /\ calls' = [calls EXCEPT ![c].state = "queued"]
            /\ client' = [client EXCEPT !.failedQueue = Append(@, c)]
       ELSE IF ~client.refreshToken
       THEN /\ calls' = [calls EXCEPT ![c].state = "rejected", ![c].error = "401", ![c].retry = TRUE]
            /\ client' = [clearTokens(client) EXCEPT !.isRefreshing = TRUE]
       ELSE /\ calls' = [calls EXCEPT ![c].state = "refreshing", ![c].retry = TRUE]
            /\ client' = [client EXCEPT !.isRefreshing = TRUE, !.refreshes = @ + 1]
    /\ UNCHANGED <<serverVars, recordVars>>

(* The access token of the next refresh response: one no call has had *)
newest ==
    LET used == {calls[c].token : c \in Calls} \cup {client.accessToken} IN
    CHOOSE n \in used : \A m \in used : m <= n

(* The response to POST /api/auth/refresh arrives at the call that sent it *)
RefreshResponse(c, ok) ==
    /\ calls[c].state = "refreshing"
    /\ LET token == newest + 1 IN
       IF ok
       THEN /\ calls' = [processQueue(calls, client.failedQueue, "", token)
                            EXCEPT ![c].state = "sent", ![c].token = token]
            /\ client' = [setTokensOf(client, token) EXCEPT !.failedQueue = <<>>,
                                         !.isRefreshing = FALSE, !.refreshes = @ - 1]
       ELSE /\ calls' = [processQueue(calls, client.failedQueue, "refresh", 0)
                            EXCEPT ![c].state = "rejected", ![c].error = "refresh"]
            /\ client' = [clearTokens(client) EXCEPT !.failedQueue = <<>>,
                                         !.isRefreshing = FALSE, !.refreshes = @ - 1]
    /\ UNCHANGED <<serverVars, recordVars>>

(* The browser replaces the page: the module state and every promise of    *)
(* the old page are gone, and /login loads the module anew.                *)
Navigate ==
    /\ client.leaving
    /\ client' = [client EXCEPT !.isRefreshing = FALSE, !.failedQueue = <<>>,
                                 !.refreshes = 0, !.leaving = FALSE]
    /\ calls' = [c \in Calls |->
                    IF calls[c].state \in {"sent", "queued", "refreshing"}
                    THEN [calls[c] EXCEPT !.state = "abandoned"]
                    ELSE calls[c]]
    /\ UNCHANGED <<serverVars, recordVars>>

----------------------------------------------------------------------------
(* The appointment handlers, one request at a time.  A handler that finds  *)
(* no appointment answers 404 and writes nothing.                          *)

otherVars == <<serverVars, clientVars>>

createPatientAppointment(a) ==
    /\ appointments[a].status = "none"
    /\ appointments' = [appointments EXCEPT ![a].status = "scheduled"]
    /\ UNCHANGED <<wellnessLogs, wreq, otherVars>>

createProviderAppointment(a) ==
    /\ appointments[a].status = "none"
    /\ appointments' = [appointments EXCEPT ![a].status = "confirmed"]
    /\ UNCHANGED <<wellnessLogs, wreq, otherVars>>

updatePatientAppointment(a, notes) ==
    /\ appointments' = IF appointments[a].status = "none" THEN appointments
                       ELSE [appointments EXCEPT ![a].notes = notes]
    /\ UNCHANGED <<wellnessLogs, wreq, otherVars>>

cancelPatientAppointment(a) ==
    /\ appointments' = IF appointments[a].status \in {"scheduled", "confirmed"}
                       THEN [appointments EXCEPT ![a].status = "cancelled",
                                                 ![a].cancelReason = "Cancelled by patient"]
                       ELSE appointments
    /\ UNCHANGED <<wellnessLogs, wreq, otherVars>>

updateProviderAppointment(a, status) ==
    /\ appointments' = IF appointments[a].status = "none" THEN appointments
                       ELSE [appointments EXCEPT
                                ![a].status = nextStatus(appointments[a].status, status)]
    /\ UNCHANGED <<wellnessLogs, wreq, otherVars>>

----------------------------------------------------------------------------
(* The wellness handlers of one patient on one day.  Each action is one    *)
(* database operation and the synchronous code that follows it.            *)

(* getOrCreateToday, the findOne; then, with a log found, the assignments  *)
(* of updateToday or logActivity to the document that was read             *)
WellnessFind(p, op, body) ==
    /\ wreq[p].pc = "idle"
    /\ op = "logActivity" =>
          (\A i \in DOMAIN wellnessLogs : wellnessLogs[i].steps + body <= MaxSteps)
    /\ LET found == findToday(wellnessLogs)
           r == [NoWellness EXCEPT !.op = op, !.body = body, !.log = found] IN
          wreq' = [wreq EXCEPT ![p] =
              IF found = 0 THEN [r EXCEPT !.pc = "create"]
              ELSE IF op = "updateToday" THEN [r EXCEPT !.pc = "save", !.steps = body]
              ELSE IF op = "logActivity"
                   THEN [r EXCEPT !.pc = "save", !.steps = wellnessLogs[found].steps + body]
              ELSE NoWellness]
    /\ UNCHANGED <<wellnessLogs, appointments, otherVars>>

(* getOrCreateToday, the create *)
WellnessCreate(p) ==
    /\ wreq[p].pc = "create"
    /\ Len(wellnessLogs) < MaxLogs
    /\ wellnessLogs' = Append(wellnessLogs, [patient |-> 1, date |-> 0, steps |-> 0])
    /\ LET r == [wreq[p] EXCEPT !.log = Len(wellnessLogs) + 1] IN
          wreq' = [wreq EXCEPT ![p] =
              IF r.op \in {"updateToday", "logActivity"}
              THEN [r EXCEPT !.pc = "save", !.steps = r.body]
              ELSE NoWellness]
    /\ UNCHANGED <<appointments, otherVars>>

(* log.save(): $set of the fields that were assigned *)
WellnessSave(p) ==
    /\ wreq[p].pc = "save"
    /\ wellnessLogs' = [wellnessLogs EXCEPT ![wreq[p].log].steps = wreq[p].steps]
    /\ wreq' = [wreq EXCEPT ![p] = NoWellness]
    /\ UNCHANGED <<appointments, otherVars>>

----------------------------------------------------------------------------
(* A request to a protected route.  server.js: apiLimiter, then            *)
(* auditMiddleware, which wraps res.end and calls next(), then the routers *)
(* in the order they are mounted.                                          *)

Receive(method, url, header) ==
    /\ http.stage \in {"idle", "done"}
    /\ Len(auditJobs) < MaxJobs
    /\ http' = [NoRequest EXCEPT !.stage = "route", !.method = method,
                                 !.url = url, !.header = header, !.at = 1]
    /\ UNCHANGED <<now, users, patients, consents, req, resp, issued, registered,
                   rotated, removed, cleared, track, env, auditJobs, auditLog, grants, sideVars>>

(* One router: skipped when the URL is not below its mount point; else its *)
(* router.use middleware, then the route that matches and its requireRole, *)
(* then the handler, whose own work is not modelled: it answers with some  *)
(* status.  A router with no matching route calls next(), which restores   *)
(* req.url; after the last router the final handler answers 404.  While a  *)
(* router runs, req.path is the path below its mount point.                *)
HandlerStatuses == {200, 500}

(* A wrapper that starts the audit write before it ends the response *)
respondLoggingFirst(h, code, path) == [h EXCEPT !.stage = "log", !.status = code, !.path = path]

respond(h, code, path) == [h EXCEPT !.stage = "end", !.status = code, !.path = path]

pass(h) ==
    IF h.at = Len(Routers) THEN respond(h, 404, h.url)
    ELSE [h EXCEPT !.at = @ + 1]

Route ==
    /\ http.stage = "route"
    /\ LET R == Routers[http.at]
           rest == below(http.url, R.base)
           auth == authMiddleware(http.header)
           h == [http EXCEPT !.user = auth.user]
           hits == hitsOf(R, http.method, http.url) IN
          IF ~startsWith(http.url, R.base) THEN http' = pass(http)
          ELSE IF auth.status # 0 THEN http' = respond(http, auth.status, rest)
          ELSE IF R.role # Null /\ requireRole(R.role, auth.user) # 0
               THEN http' = respond(h, requireRole(R.role, auth.user), rest)
          ELSE IF hits = {} THEN http' = pass(h)
          ELSE LET r == CHOOSE r \in hits : TRUE IN
               IF requireRole(r.role, auth.user) # 0
               THEN http' = respond(h, requireRole(r.role, auth.user), rest)
               ELSE \E code \in HandlerStatuses :
                       http' = respond([h EXCEPT !.ran = TRUE], code, rest)
    /\ UNCHANGED <<now, users, patients, consents, req, resp, issued, registered,
                   rotated, removed, cleared, track, env, auditJobs, auditLog, grants, sideVars>>

(* The wrapped res.end, first half: res.end = originalEnd; res.end(chunk) *)
End ==
    /\ http.stage = "end"
    /\ http' = [http EXCEPT !.stage = "log", !.sent = TRUE]
    /\ UNCHANGED <<now, users, patients, consents, req, resp, issued, registered,
                   rotated, removed, cleared, track, env, auditJobs, auditLog, grants, sideVars>>

(* The wrapped res.end, second half: getActionType and, for a tracked      *)
(* action, AuditLog.log(logData) without await.                            *)
AuditStart ==
    /\ http.stage = "log"
    /\ auditJobs' = auditJobs \o logData(http.method, http.path, http.url,
                                          http.user, http.status, http.sent)
    /\ http' = [http EXCEPT !.stage = "done"]
    /\ UNCHANGED <<now, users, patients, consents, req, resp, issued, registered,
                   rotated, removed, cleared, track, env, auditLog, grants, sideVars>>

(* AuditLog.log settles: this.create stored the document, or it threw *)
AuditWrite(i, created) ==
    /\ i \in DOMAIN auditJobs
    /\ auditJobs[i].state = "pending"
    /\ auditJobs' = [auditJobs EXCEPT ![i].state = logOutcome(created)]
    /\ auditLog' = IF created THEN Append(auditLog, auditJobs[i]) ELSE auditLog
    /\ UNCHANGED <<now, users, patients, consents, req, resp, issued, registered,
                   rotated, removed, cleared, track, env, http, grants, sideVars>>

----------------------------------------------------------------------------
(* Consent.grant and Consent.revoke, called on the Consent collection *)

pendingCreate == Cardinality({q \in Procs : grants[q].pc = "create"})

GrantStart(p, userId, consentType) ==
    /\ grants[p].pc = "idle"
    /\ Len(consents) + pendingCreate < MaxConsents
    /\ consents' = closeActive(consents, userId, consentType)
    /\ grants' = [grants EXCEPT ![p] = [pc |-> "create", user |-> userId,
                                        consentType |-> consentType]]
    /\ UNCHANGED <<now, users, patients, req, resp, issued, registered,
                   rotated, removed, cleared, track, env, http, auditJobs, auditLog, sideVars>>

GrantCreate(p) ==
    /\ grants[p].pc = "create"
    /\ consents' = createConsent(consents, grants[p].user, grants[p].consentType)
    /\ grants' = [grants EXCEPT ![p] = NoGrant]
    /\ UNCHANGED <<now, users, patients, req, resp, issued, registered,
                   rotated, removed, cleared, track, env, http, auditJobs, auditLog, sideVars>>

RevokeConsent(p, userId, consentType) ==
    /\ grants[p].pc = "idle"
    /\ consents' = revoke(consents, userId, consentType)
    /\ UNCHANGED <<now, users, patients, req, resp, issued, registered, rotated,
                   removed, cleared, track, env, http, auditJobs, auditLog, grants, sideVars>>

----------------------------------------------------------------------------
(* The requests a client sends, with the e-mail addresses drawn from E:    *)
(* every well-formed one, and one for each way of being malformed.  A      *)
(* logout carries a refresh token or a bearer token: with a refresh token  *)
(* in the body the handler never looks at the header.                      *)
RegisterInputs(E) ==
    {<<e, w, "true">> : e \in E, w \in RegisterPasswords}
        \cup {<<NoEmail, "p", "true">>, <<(<<"a">>), NoPassword, "true">>,
              <<(<<"a">>), "p", "false">>, <<(<<"a">>), "p", Absent>>}

LoginInputs(E) ==
    {<<e, w>> : e \in E, w \in Passwords}
        \cup {<<NoEmail, "p">>, <<(<<"a">>), NoPassword>>}

RevokeInputs ==
    {<<id, t>> : id \in Ids, t \in issued \cup {NoToken}} \cup {<<GhostId, NoToken>>}

LogoutInputs ==
    {<<NoToken, t>> : t \in RefreshInputs} \cup {<<b, NoToken>> : b \in BearerInputs}

(* One step of the handler running in slot p *)
Handle(p, E) ==
    \/ \E i \in RegisterInputs(E) : RegisterStart(p, i[1], i[2], i[3])
    \/ RegisterCreate(p)
    \/ RegisterSign(p)
    \/ RegisterSave(p)
    \/ \E i \in LoginInputs(E) : LoginStart(p, i[1], i[2])
    \/ LoginSave(p)
    \/ \E t \in RefreshInputs : RefreshStart(p, t)
    \/ RefreshSave(p)
    \/ \E i \in RevokeInputs : RevokeStart(p, i[1], i[2])
    \/ RevokeSave(p)
    \/ \E i \in LogoutInputs : Logout(p, i[1], i[2])

(* Two requests in flight at a time, all for one account, with the history *)
(* of every token recorded                                                *)
Next == Tick \/ Respond \/ \E p \in Procs : Handle(p, OneAccount)

Spec == Init /\ [][Next]_vars

(* One request at a time, over two accounts *)
NextSeq == Tick \/ Respond \/ Handle("r1", Emails)

SpecSeq == InitSeq /\ [][NextSeq]_vars

SpecLean == InitSeq /\ [][Next]_vars

(* The protected routes, in every configuration of the two secrets.  The   *)
(* clients hold the tokens of a patient and of a provider.                 *)
patientUser == [role |-> "patient", email |-> <<"a">>]
providerUser == [role |-> "provider", email |-> <<"d">>]

AccessTokens == {signAccessToken(1, patientUser), signAccessToken(2, providerUser)}

ExpiredAccessToken ==
    [signAccessToken(1, patientUser) EXCEPT !.iat = 0 - ACCESS_EXPIRES, !.exp = 0]

Headers ==
    {NoHeader,
     [parts |-> 1, scheme |-> "Bearer", token |-> NoToken],
     [parts |-> 2, scheme |-> "Basic", token |-> signAccessToken(1, patientUser)],
     [parts |-> 3, scheme |-> "Bearer", token |-> NoToken]}
        \cup {Bearer(t) : t \in AccessTokens}
        \cup {Bearer(signRefreshToken(1, patientUser)), Bearer(ExpiredAccessToken),
              Bearer([signAccessToken(1, patientUser) EXCEPT !.key = "forged"])}

Requests ==
    {<<"GET", <<"api", "patients", "me">> >>,
     <<"PUT", <<"api", "patients", "me">> >>,
     <<"GET", <<"api", "patients", "dashboard">> >>,
     <<"POST", <<"api", "patients", "goals", "g1", "log">> >>,
     <<"GET", <<"api", "patients", "wellness", "today">> >>,
     <<"GET", <<"api", "patients", "wellness">> >>,
     <<"GET", <<"api", "providers", "me">> >>,
     <<"GET", <<"api", "providers", "patients">> >>,
     <<"GET", <<"api", "providers", "patients", "p1">> >>,
     <<"GET", <<"api", "appointments", "patient">> >>,
     <<"GET", <<"api", "appointments", "provider">> >>,
     <<"GET", <<"api", "appointments">> >>,
     <<"GET", <<"api", "unknown">> >>}

InitGate == InitState /\ track = FALSE /\ env \in EnvConfigs /\ client = Browser

NextGate ==
    \/ \E r \in Requests : \E h \in Headers : Receive(r[1], r[2], h)
    \/ Route
    \/ End
    \/ AuditStart
    \/ \E i \in 1..MaxJobs : \E created \in BOOLEAN : AuditWrite(i, created)

SpecGate == InitGate /\ [][NextGate]_vars

(* Consent.grant and Consent.revoke calls, overlapping and one at a time *)
ConsentUsers == {1}
ConsentTypes == {"data_processing", "marketing"}

ConsentStep(p) ==
    \/ \E u \in ConsentUsers : \E c \in ConsentTypes : GrantStart(p, u, c)
    \/ GrantCreate(p)
    \/ \E u \in ConsentUsers : \E c \in ConsentTypes : RevokeConsent(p, u, c)

NextConsent == \E p \in Procs : ConsentStep(p)

SpecConsent == InitSeq /\ [][NextConsent]_vars

NextConsentSeq == ConsentStep("r1")

SpecConsentSeq == InitSeq /\ [][NextConsentSeq]_vars

(* One request at a time, with a database that can reject a write of a     *)
(* registration                                                            *)
NextFault ==
    \/ NextSeq
    \/ \E step \in FaultSteps : RegisterFault("r1", step)

SpecFault == InitSeq /\ [][NextFault]_vars

(* The frontend with its calls overlapping, against a server that answers *)
(* any request with 200 or 401 and any refresh with tokens or an error     *)
NextClient ==
    \/ \E c \in Calls : Request(c)
    \/ \E c \in Calls : \E status \in {200, 401} : Response(c, status)
    \/ \E c \in Calls : \E ok \in BOOLEAN : RefreshResponse(c, ok)
    \/ Navigate

InitClient == InitState /\ track = FALSE /\ env = DefaultEnv /\ client \in {Browser, NoWindow}

SpecClient == InitClient /\ [][NextClient]_vars

(* Every request that was sent is answered *)
SpecClientLive ==
    /\ SpecClient
    /\ \A c \in Calls : WF_vars(\E status \in {200, 401} : Response(c, status))
    /\ \A c \in Calls : WF_vars(\E ok \in BOOLEAN : RefreshResponse(c, ok))
    /\ WF_vars(Navigate)

(* The appointments of one patient and one provider *)
NextAppointments ==
    \E a \in Appointments :
        \/ createPatientAppointment(a)
        \/ createProviderAppointment(a)
        \/ \E notes \in {"", "n"} : updatePatientAppointment(a, notes)
        \/ cancelPatientAppointment(a)
        \/ \E status \in AppointmentStatuses \cup {""} : updateProviderAppointment(a, status)

SpecAppointments == InitSeq /\ [][NextAppointments]_vars

(* The wellness requests of one patient, two at a time *)
NextWellness ==
    \E p \in Procs :
        \/ \E op \in WellnessOps : \E body \in {0, 1} : WellnessFind(p, op, body)
        \/ WellnessCreate(p)
        \/ WellnessSave(p)

SpecWellness == InitSeq /\ [][NextWellness]_vars

(* The auth rate limiter, with requests of two keys *)
NextLimiter ==
    \/ \E t \in Instants : Advance(t)
    \/ \E k \in LimiterKeys : authLimiter(k)

SpecLimiter == InitSeq /\ [][NextLimiter]_vars

----------------------------------------------------------------------------
(* C1: refresh tokens are single-use.  A refreshAuth(t) that begins after  *)
(* a refreshAuth(t) has returned successfully is answered 401.             *)
C1_SingleUse ==
    (resp.op = "refresh" /\ resp.replay) => resp.status = 401

(* C2: of two overlapping refreshAuth(t) calls at most one succeeds, and   *)
(* the one that overlapped the winner is answered 401.                     *)
C2_OneWinner ==
    (resp.op = "refresh" /\ resp.ov) => resp.status = 401

(* C3: a stored refreshTokens list holds only tokens issued to that user   *)
(* that no completed rotation or revocation has removed.                   *)
C3_OnlyLiveTokens ==
    \A id \in Ids :
        \A t \in Range(users[id].refreshTokens) :
            t.sub = id /\ t \in issued /\ t \notin removed

(* C4: a logout with a valid bearer access token and no refresh token is   *)
(* answered 200 and leaves that user's token list empty.                   *)
C4_LogoutEverywhere ==
    (resp.op = "logout" /\ resp.authOnly) =>
        (resp.status = 200 /\ users[resp.expect].refreshTokens = <<>>)

(* C5: after revokeTokens(userId) without a token has returned, refreshAuth *)
(* answers 401 for every token issued to that user before the call.         *)
C5_RevokeAll ==
    (resp.op = "refresh" /\ resp.wasCleared) => resp.status = 401

(* C6: revokeTokens(userId, t) ends one session only: the user's list      *)
(* loses at most the one entry of t's session, every other token stays,    *)
(* and the lists of the other users are unchanged.                         *)
revokesOne(p) ==
    /\ req[p].op \in {"revoke", "logout"} /\ req[p].pc = "save"
    /\ req[p].tok # NoToken
    /\ req'[p].pc = "idle" /\ resp'.status = 200

C6_RevokeOneSession ==
    [][\A p \in Procs : revokesOne(p) =>
          LET id == req[p].uid
              before == users[id].refreshTokens
              after == users'[id].refreshTokens IN
          /\ Len(after) >= Len(before) - 1
          /\ \A t \in Range(before) \ {req[p].tok} : includes(after, t)
          /\ \A other \in Ids \ {id} : users'[other] = users[other]]_vars

(* C7: a successful login appends its refresh token to the stored list and *)
(* removes nothing: every token that was in the list is still in it.       *)
loginSaved(p) ==
    /\ req[p].op = "login" /\ req[p].pc = "save"
    /\ req'[p].pc = "idle"

C7_LoginAdditive ==
    [][\A p \in Procs : loginSaved(p) =>
          LET id == req[p].uid
              before == users[id].refreshTokens
              after == users'[id].refreshTokens IN
          /\ resp'.status = 200
          /\ after = Append(before, req[p].new)
          /\ \A t \in Range(before) : t \in Range(after)
          /\ issued' = issued \cup {req[p].new}]_vars

C7_Witness ==
    /\ resp.op = "login" /\ resp.status = 200
    /\ Len(users[resp.sub].refreshTokens) >= 2

(* C8: refreshAuth answers 400 for an absent token and 401 for a token     *)
(* with a bad signature or past its expiry, for a valid token whose        *)
(* subject has no user record and for a valid token that is not in the     *)
(* user's list; a refreshAuth that fails changes no user and issues no     *)
(* token.                                                                  *)
validRefresh(t) == t # NoToken /\ t.key = REFRESH_SECRET /\ now < t.exp

C8_RefreshFailures ==
    [][/\ \A p \in Procs : \A t \in RefreshInputs : RefreshStart(p, t) =>
             /\ (t = NoToken => resp'.status = 400)
             /\ (t # NoToken /\ ~validRefresh(t) => resp'.status = 401)
             /\ (validRefresh(t) /\ t.sub \notin Ids => resp'.status = 401)
             /\ (validRefresh(t) /\ t.sub \in Ids
                    /\ t \notin Range(users[t.sub].refreshTokens) => resp'.status = 401)
       /\ (resp'.op = "refresh" /\ resp'.status # 200) =>
             (users' = users /\ issued' = issued /\ resp'.sub = 0)]_vars

C8_Witness ==
    /\ resp.op = "refresh" /\ resp.status = 401
    /\ \E id \in Ids : users[id].refreshTokens # <<>>

(* C9: a well-formed registration whose e-mail equals, up to letter case,  *)
(* the e-mail of an existing user is answered 409 and creates no user, no  *)
(* patient profile, no consent record and no token.                        *)
C9_DuplicateEmail ==
    [][\A p \in Procs : \A e \in Emails : \A w \in RegisterPasswords :
          (/\ RegisterStart(p, e, w, "true")
           /\ \E id \in Ids : EqualsIgnoreCase(users[id].email, e)) =>
              /\ resp'.op = "register" /\ resp'.status = 409
              /\ req'[p] = Idle
              /\ users' = users /\ patients' = patients
              /\ consents' = consents /\ issued' = issued]_vars

C9_Witness ==
    /\ resp.op = "register" /\ resp.status = 409
    /\ Len(users) = 1

(* C10: a login with the password and, up to letter case, the e-mail of a  *)
(* registration that was answered 201 succeeds, and the subject of its     *)
(* access token is the id of the user that registration created.           *)
C10_LoginAfterRegister ==
    (resp.op = "login" /\ resp.expect # 0) =>
        (resp.status = 200 /\ resp.sub = resp.expect)

C10_Witness ==
    /\ resp.op = "login" /\ resp.expect = 2
    /\ resp.status = 200 /\ resp.sub = 2

(* C11: a login with an unknown e-mail and a login with a known e-mail and *)
(* a wrong password are answered with the same status, 401, and the same   *)
(* body, and a login answered 401 changes no stored state.                 *)
C11_NoEnumeration ==
    [][/\ \A e1, e2 \in Emails : \A w1, w2 \in Passwords :
             (/\ findOne(toLowerCase(e1)) = 0
              /\ findOne(toLowerCase(e2)) # 0
              /\ ~comparePassword(w2, users[findOne(toLowerCase(e2))].passwordHash)) =>
                 /\ respondError(loginError(e1, w1)) = respondError(loginError(e2, w2))
                 /\ respondError(loginError(e1, w1)).status = 401
       /\ \A p \in Procs : \A i \in LoginInputs(Emails) :
             (LoginStart(p, i[1], i[2]) /\ loginError(i[1], i[2]) \in {unknownEmail, wrongPassword}) =>
                 /\ resp'.op = "login" /\ resp'.status = 401
                 /\ req'[p] = Idle
                 /\ users' = users /\ patients' = patients /\ consents' = consents
                 /\ issued' = issued /\ auditLog' = auditLog]_vars

C11_Witness ==
    /\ resp.op = "login" /\ resp.status = 401
    /\ \E e1, e2 \in Emails : findOne(toLowerCase(e1)) = 0 /\ findOne(toLowerCase(e2)) # 0

(* C12: a registration whose consent flag is false or absent is answered   *)
(* 400 and goes no further, so that it creates nothing.                    *)
C12_ConsentRequired ==
    [][\A p \in Procs : \A i \in RegisterInputs(Emails) :
          (RegisterStart(p, i[1], i[2], i[3]) /\ i[3] # "true") =>
              (resp'.op = "register" /\ resp'.status = 400 /\ req'[p] = Idle)]_vars

(* C13: with JWT_SECRET and JWT_REFRESH_SECRET each set or left unset,     *)
(* authMiddleware never takes req.user from a refresh token, and           *)
(* verifyRefreshToken accepts no access token.                             *)
RefreshTokens == {signRefreshToken(1, patientUser), signRefreshToken(2, providerUser)}

C13_KeySeparation ==
    /\ http.user \notin RefreshTokens
    /\ \A t \in RefreshTokens : authMiddleware(Bearer(t)).status = 401
    /\ \A t \in AccessTokens : ~verifyRefreshToken(t)

(* C14: on the protected routes a handler runs only for a two-part Bearer  *)
(* header whose token is an unexpired access token signed with the access  *)
(* key and carrying the role of the route; any other header or token is    *)
(* answered 401, a wrong role 403, and then no handler has run.            *)
protected(url) == \E k \in DOMAIN Routers : startsWith(url, Routers[k].base)

routed(method, url) ==
    UNION {hitsOf(Routers[k], method, url) :
              k \in {j \in DOMAIN Routers : startsWith(url, Routers[j].base)}}

C14_ProtectedRoutes ==
    (http.stage \in {"end", "log", "done"} /\ protected(http.url)) =>
        LET h == http.header
            credential == /\ h.parts = 2 /\ h.scheme = "Bearer"
                          /\ h.token \in AccessTokens
                          /\ h.token.key = SECRET /\ now < h.token.exp
            hits == routed(http.method, http.url) IN
        /\ ~credential => (http.status = 401 /\ ~http.ran)
        /\ (credential /\ \E r \in hits : r.role # h.token.role) =>
               (http.status = 403 /\ ~http.ran)
        /\ http.ran => (credential /\ hits # {} /\ \A r \in hits : r.role = h.token.role)

(* C15: AuditLog.log never rejects, and the audit write of a request,      *)
(* whether it stores the entry or fails, changes nothing of any response.  *)
C15_AuditNeverBreaks ==
    [][/\ \A i \in DOMAIN auditJobs' : auditJobs'[i].state # "rejected"
       /\ \A i \in 1..MaxJobs : \A created \in BOOLEAN :
             AuditWrite(i, created) => (http' = http /\ resp' = resp)]_vars

C15_Witness ==
    /\ http.sent
    /\ \E i \in DOMAIN auditJobs : auditJobs[i].state = "resolved"
    /\ auditLog = <<>>

(* C16: the audit write of a tracked request is started after res.end has  *)
(* been invoked, and a response that is ready is never held back by audit  *)
(* writes that are pending.                                                *)
C16_AuditAfterEnd ==
    /\ \A i \in DOMAIN auditJobs : auditJobs[i].afterEnd
    /\ http.stage = "end" => ENABLED End

C16_Witness ==
    /\ http.stage = "end"
    /\ \E i \in DOMAIN auditJobs : auditJobs[i].state = "pending" /\ auditJobs[i].afterEnd

(* C17: every request to a PHI-serving endpoint starts one AuditLog.log     *)
(* call with the action the table gives its method and path, and a request *)
(* the table has no entry for starts none.                                 *)
servesPHI(method, url) ==
    routed(method, url) # {} /\ url # <<"api", "providers", "me">>

C17_AllPHILogged ==
    [][AuditStart =>
          LET new == SubSeq(auditJobs', Len(auditJobs) + 1, Len(auditJobs'))
              action == getActionType(http.method, http.url) IN
          /\ servesPHI(http.method, http.url) =>
                (Len(new) = 1 /\ action # Null /\ new[1].action = action)
          /\ action = Null => new = <<>>]_vars

(* C18: the response 401 of a login starts an audit entry with null        *)
(* identity fields, marked as not successful.                              *)
C18_FailedLoginAudited ==
    [][(Respond /\ resp.op = "login" /\ resp.status = 401) =>
          /\ Len(auditJobs') = Len(auditJobs) + 1
          /\ LET e == auditJobs'[Len(auditJobs')] IN
                e.userId = 0 /\ e.userRole = Null /\ ~e.success]_vars

(* C19: with one Consent call at a time, every (user, consentType) has at  *)
(* most one active record, and after a grant its only active record is the *)
(* one the grant created.                                                  *)
C19_OneActiveConsent ==
    [][/\ \A u \in ConsentUsers : \A c \in ConsentTypes :
             Cardinality(activeOf(consents', u, c)) <= 1
       /\ \A p \in Procs : GrantCreate(p) =>
             activeOf(consents', grants[p].user, grants[p].consentType) = {Len(consents')}]_vars

C19_Witness ==
    \E i, j \in DOMAIN consents :
        /\ i < j /\ consents[i].consentType = consents[j].consentType
        /\ consents[i].granted /\ consents[i].revokedAt # NullDate
        /\ isActive(consents[j], consents[j].user, consents[j].consentType)
        /\ \A p \in Procs : grants[p] = NoGrant

(* C20: with Consent.grant calls overlapping, no (user, consentType) has   *)
(* more than one active record.                                            *)
C20_OneActiveUnderOverlap ==
    \A u \in ConsentUsers : \A c \in ConsentTypes :
        Cardinality(activeOf(consents, u, c)) <= 1

(* C21: revokeTokens for a token that is not in the list of the user is    *)
(* answered without error and changes no user, and a revokeTokens call     *)
(* that has succeeded leaves a list that the same call would not change.   *)
revoked(list, t) == IF t # NoToken THEN without(list, t) ELSE <<>>

C21_RevokeIdempotent ==
    [][/\ \A p \in Procs : \A i \in RevokeInputs :
             (/\ RevokeStart(p, i[1], i[2])
              /\ i[1] \in Ids /\ i[2] # NoToken
              /\ ~includes(users[i[1]].refreshTokens, i[2])) =>
                 (resp'.status = 200 /\ users' = users /\ req'[p] = Idle)
       /\ \A p \in Procs : \A i \in RevokeInputs :
             (RevokeStart(p, i[1], i[2]) /\ resp'.status = 200) =>
                 revoked(users'[i[1]].refreshTokens, i[2]) = users'[i[1]].refreshTokens
       /\ \A p \in Procs :
             (/\ req[p].op = "revoke" /\ req[p].pc = "save"
              /\ req'[p] = Idle /\ resp'.status = 200) =>
                 /\ users'[req[p].uid].refreshTokens
                        = revoked(users[req[p].uid].refreshTokens, req[p].tok)
                 /\ revoked(users'[req[p].uid].refreshTokens, req[p].tok)
                        = users'[req[p].uid].refreshTokens]_vars

C21_Witness ==
    /\ resp.op = "revoke" /\ resp.status = 200 /\ resp.noop
    /\ \E id \in Ids : users[id].refreshTokens # <<>>

(* C22: a response with status 500 of register, login, refresh or logout   *)
(* carries the fixed message and nothing of the error that caused it.      *)
C22_NoDetailLeak ==
    (resp.op \in DOMAIN authRoute /\ resp.status = 500) =>
        resp.error = "Internal Server Error"

(* C23: of the requests of one key that arrive within 60 seconds of the    *)
(* first request of a window, the first five are passed on and every       *)
(* further one is answered 429 and not passed on; the remaining count      *)
(* reported is never negative.                                             *)
windowOf(i) ==
    {j \in DOMAIN arrivals : /\ arrivals[j].key = arrivals[i].key /\ j >= i
                           /\ arrivals[j].at - arrivals[i].at <= windowMs}

C23_AuthRateLimit ==
    /\ \A i \in DOMAIN arrivals : arrivals[i].first =>
          /\ Cardinality({j \in windowOf(i) : arrivals[j].passed}) <= authMax
          /\ \A j \in windowOf(i) :
                IF Cardinality({k \in windowOf(i) : k < j}) < authMax
                THEN arrivals[j].passed
                ELSE ~arrivals[j].passed /\ arrivals[j].status = 429
    /\ \A i \in DOMAIN arrivals : arrivals[i].remaining >= 0

C23_Witness ==
    \E i, j, k \in DOMAIN arrivals :
        /\ i < j /\ j < k
        /\ arrivals[i].key = arrivals[j].key /\ arrivals[j].key = arrivals[k].key
        /\ arrivals[i].first /\ arrivals[j].status = 429
        /\ arrivals[j].at = arrivals[i].at + windowMs
        /\ arrivals[k].first /\ arrivals[k].passed

(* C24: a refresh token returned by register, login or refreshAuth differs *)
(* from every refresh token returned before, and the token returned by    *)
(* refreshAuth(t) differs from t.                                          *)
C24_FreshTokens ==
    [][\A p \in Procs :
          (/\ req[p].op \in {"register", "login", "refresh"} /\ req[p].pc = "save"
           /\ req'[p] = Idle /\ resp'.status \in {200, 201}) =>
              /\ req[p].new \notin issued
              /\ req[p].op = "refresh" => req[p].new # req[p].tok]_vars

(* C25: with login, refreshAuth and revokeTokens calls overlapping, a      *)
(* refresh token that was returned leaves the stored list only by its own  *)
(* rotation or by a revocation that covers it and began after it was       *)
(* issued, and a token that is returned is in the stored list.             *)
covers(r) ==
    IF r.op = "refresh" \/ r.tok # NoToken THEN {r.tok} ELSE r.pre

C25_NoLostSession ==
    [][/\ \A id \in Ids :
             LET lost == Range(users[id].refreshTokens) \ Range(users'[id].refreshTokens) IN
             lost # {} =>
                 \E p \in Procs :
                     /\ req[p].op \in {"refresh", "revoke", "logout"}
                     /\ req[p].pc = "save" /\ req'[p] = Idle /\ req[p].uid = id
                     /\ lost \subseteq covers(req[p])
       /\ \A p \in Procs :
             (/\ req[p].op \in {"register", "login", "refresh"} /\ req[p].pc = "save"
              /\ req'[p] = Idle /\ resp'.status \in {200, 201}) =>
                 includes(users'[req[p].uid].refreshTokens, req[p].new)]_vars

C25_Witness ==
    /\ \E p \in Procs : req[p].op \in {"revoke", "logout"} /\ req[p].stale
    /\ \E id \in Ids : Len(users[id].refreshTokens) >= 2

(* C26: a registration that fails after its user record was created       *)
(* leaves no user with its e-mail address stored.                          *)
C26_RegisterAllOrNothing ==
    [][\A p \in Procs : \A step \in FaultSteps :
          RegisterFault(p, step) =>
              ~\E id \in DOMAIN users' : users'[id].email = toLowerCase(req[p].email)]_vars

C28_RefreshFinishes ==
    /\ client.isRefreshing ~> ~client.isRefreshing
    /\ \A c \in Calls : (calls[c].state = "queued") ~> (calls[c].state # "queued")

(* C29: an appointment whose status is cancelled, completed or no-show     *)
(* keeps that status, and no operation sets the status of an appointment   *)
(* to scheduled again.                                                     *)
C29_ClosedIsFinal ==
    [][\A a \in Appointments :
          /\ appointments[a].status \in {"cancelled", "completed", "no-show"} =>
                appointments'[a].status = appointments[a].status
          /\ appointments'[a].status = "scheduled" =>
                appointments[a].status \in {"none", "scheduled"}]_vars

(* C30: the patient has at most one WellnessLog record of the day, and an  *)
(* update that is saved is applied to that record: logActivity adds its    *)
(* amount to the stored value, updateToday stores its value.               *)
C30_OneLogPerDay ==
    [][/\ Len(wellnessLogs') <= 1
       /\ \A p \in Procs : WellnessSave(p) =>
             wellnessLogs'[1].steps =
                 IF wreq[p].op = "logActivity"
                 THEN wellnessLogs[1].steps + wreq[p].body
                 ELSE wreq[p].body]_vars

====
